---- MODULE Spec2Model ----
(***************************************************************************)
(* Task/case orchestration of df_agent: the task registry                  *)
(* (output/task_manager.json), the case materializer (initialize_tasks)    *)
(* and the registry side of region setup (add_region_config).              *)
(*                                                                         *)
(* The deployment modelled is the one the tools are written for: the       *)
(* DF_AGENT_ROOT variable, the path hard-coded in setFields.py and the     *)
(* working directory all name the same agent directory, so that            *)
(* output/task_manager.json and output/df_runs are one file and one        *)
(* directory for every tool.                                               *)
(***************************************************************************)
EXTENDS Integers, Sequences, FiniteSets, TLC

VARIABLES
    config,        \* config.json: whether it can be read, and SUPPORTED_CASE_TYPES
    templates,     \* case types that have a directory under case_templates/
    task_manager,  \* output/task_manager.json
    df_runs,       \* output/df_runs and the case directories in it
    xde_runs,      \* whether output/xde_runs exists
    last,          \* the latest tool call that returned: its arguments and result
    pc,            \* concurrent add_region_config calls: position of each call
    local,         \* concurrent add_region_config calls: local variables of each call
    host           \* what the run tools read and write outside the registry: environment
                   \* variables, scripts, scalar files, the output file, copied logs

vars == <<config, templates, task_manager, df_runs, xde_runs, last, pc, local, host>>

----------------------------------------------------------------------------
(* Bounds of the model *)

MaxCaseNum == 2      \* largest case_num a call passes
MaxRegions == 2      \* regions the registry holds before add_region_config is no longer called
MaxLeftover == 1     \* case directories left in output/df_runs by an earlier session
MaxBlocks == 2       \* blocks a dictionary holds before conduct_add_region is no longer called
MaxListed == 4       \* regions the registry holds before add_regions_interactive is no longer called
MaxInjected == 4     \* blocks a dictionary holds before add_target_case_region is no longer called

----------------------------------------------------------------------------
(* Inputs *)

CaseTypeInputs == {"2D_HIT", "1D_free_flame", "3D_FLOW"}
CaseNumInputs == (-1)..MaxCaseNum

\* f"{case_type}_{case_index}"
CaseName(case_type, case_index) == <<case_type, case_index>>

UnknownCase == <<"nonexistent", 0>>
CaseNameInputs == {CaseName("2D_HIT", i) : i \in 1..MaxCaseNum} \cup {UnknownCase}

Region(type, radius) ==
    [type |-> type, p1 |-> <<0, 0, 0>>, p2 |-> <<0, 0, 1>>, radius |-> radius]
RegionInputs == {Region("circle", 1), Region("ring", 2)}

----------------------------------------------------------------------------
(* configuration_handler.py *)

FuelConfig ==
    [fuel |-> "H2", equiv_ratio |-> 1, temperature |-> 600, pressure |-> 1]
BlockMeshDict ==
    [cells_per_direction |-> <<1024, 1024>>, domain_size |-> <<"0.05", "0.05">>]
SetFieldsDict == [regions |-> <<>>]
ControlDict ==
    [endTime |-> "0.0003", deltaT |-> "1e-6", writeInterval |-> "1e-5"]

SUPPORTED_CASE_TYPES == {"1D_free_flame", "2D_HIT"}

\* CaseConfiguration(case_type).to_dict(): the dictionary, or the exception raised
CaseConfiguration(case_type) ==
    IF case_type \notin SUPPORTED_CASE_TYPES
    THEN [exc |-> "UnsupportedCaseTypeError"]
    ELSE IF case_type = "1D_free_flame"
    THEN [exc |-> "NotImplementedError"]
    ELSE [exc |-> "none",
          value |-> [fuel |-> FuelConfig,
                     blockMeshDict |-> BlockMeshDict,
                     setFieldsDict |-> SetFieldsDict,
                     controlDict |-> ControlDict]]

----------------------------------------------------------------------------
(* Files *)

\* output/task_manager.json: absent, just opened for writing (empty), or JSON
NoRegistry == [state |-> "absent", run_cases |-> <<>>]
Truncated == [state |-> "truncated", run_cases |-> <<>>]
Registry(run_cases) == [state |-> "json", run_cases |-> run_cases]

\* run_cases is a dict in insertion order: a sequence of entries with distinct names
Names(run_cases) == {run_cases[i].name : i \in 1..Len(run_cases)}
IndexOf(run_cases, name) ==
    CHOOSE i \in 1..Len(run_cases) : run_cases[i].name = name
Entry(run_cases, name) == run_cases[IndexOf(run_cases, name)]
RegionsOf(run_cases, name) ==
    Entry(run_cases, name).case_config.setFieldsDict.regions

\* A text file is its lines, each line the sequence of its words, and whether the
\* last line still lacks its newline (open). Text(lines) ends with a newline.
Text(lines) == [lines |-> lines, open |-> FALSE]
OpenText(lines) == [lines |-> lines, open |-> TRUE]

\* the set-fields dictionary shipped with a template
TemplateSetFields ==
    Text(<< <<"defaultFieldValues">>, <<"regions">>, <<"(">>, <<");">> >>)
TemplateTree(case_type) ==
    [template |-> case_type, setFieldsDict |-> TemplateSetFields]
\* a case directory of an earlier session, its dictionary already edited
LeftoverTree ==
    [template |-> "2D_HIT",
     setFieldsDict |->
        Text(<< <<"defaultFieldValues">>, <<"regions">>, <<"(">>,
                <<"boxToCell">>, <<");">> >>)]

HasDir(dirs, name) == name \in DOMAIN dirs

ConfigInputs ==
    {[readable |-> FALSE, supported |-> {}],
     [readable |-> TRUE, supported |-> {"2D_HIT"}],
     [readable |-> TRUE, supported |-> {"1D_free_flame", "2D_HIT"}]}

\* case_templates/: with or without the template that registry entries name
TemplateInputs == {{"1D_free_flame"}, {"1D_free_flame", "2D_HIT"}}

\* The host: env holds the environment variables that are set, dirs the directories
\* that exist outside output/df_runs, scripts the script files that exist, scalars
\* the state of the scalar files T and Cx of the data directory, output the state
\* of the text file read_and_save_openfoam_scalars writes, logs the directories that
\* log files were copied into
EnvVars == {"DF_ROOT", "WM_PROJECT_DIR", "DF_AGENT_ROOT"}
TemplateCasePath == "case_templates/1D_free_flame/H2"
StandardCasePath == "standard_case"
CallerCwd == "."
CasePath(name) == "output/df_runs/" \o name[1] \o "_" \o ToString(name[2])
Script(dir, name) == <<dir, name>>

DefaultHost ==
    [env |-> EnvVars, dirs |-> {StandardCasePath},
     scripts |-> {Script(TemplateCasePath, "Allrun")},
     scalars |-> [T |-> "valid", Cx |-> "valid"],
     output |-> "absent", logs |-> {}]

EnvInputs == {{}, {"DF_AGENT_ROOT"}, {"DF_ROOT", "DF_AGENT_ROOT"}, EnvVars}
\* directories and scripts: nothing at all; the template script and a standard
\* case with set.sh only; scripts everywhere
ScriptInputs ==
    {[dirs |-> {}, scripts |-> {}],
     [dirs |-> {StandardCasePath},
      scripts |-> {Script(TemplateCasePath, "Allrun"),
                   Script(StandardCasePath, "set.sh")}],
     [dirs |-> {StandardCasePath},
      scripts |-> {Script(TemplateCasePath, "Allrun"),
                   Script(CasePath(CaseName("2D_HIT", 1)), "Allrun"),
                   Script(StandardCasePath, "set.sh"),
                   Script(StandardCasePath, "sub.sh")}]}
ScalarInputs ==
    {[T |-> "valid", Cx |-> "valid"], [T |-> "absent", Cx |-> "valid"],
     [T |-> "absent", Cx |-> "absent"], [T |-> "valid", Cx |-> "malformed"],
     [T |-> "absent", Cx |-> "malformed"]}
OutputInputs == {"absent", "unwritable"}
HostInputs ==
    {[env |-> e, dirs |-> d.dirs, scripts |-> d.scripts, scalars |-> f,
      output |-> o, logs |-> {}] :
        e \in EnvInputs, d \in ScriptInputs, f \in ScalarInputs, o \in OutputInputs}

Procs == {"p1", "p2"}
Idle == [case_name |-> UnknownCase, region |-> Region("circle", 1),
         task_manager |-> NoRegistry, status |-> "none"]

NoCall == [op |-> "none", status |-> "none", error |-> "none"]

Init ==
    /\ config \in ConfigInputs
    /\ templates \in TemplateInputs
    /\ task_manager = NoRegistry
    /\ \E k \in 0..MaxLeftover :
         df_runs = [exists |-> k > 0,
                    dirs |-> [n \in {CaseName("2D_HIT", i) : i \in 1..k} |-> LeftoverTree]]
    /\ xde_runs = df_runs.exists
    /\ last = NoCall
    /\ pc = [p \in Procs |-> "idle"]
    /\ local = [p \in Procs |-> Idle]
    /\ host = DefaultHost

\* set-fields dictionaries a template may ship: the usual one, one without the
\* regions list, one that ends with the line that names the list, one that also
\* names the list in a comment, and one whose last line has no newline
DictInputs ==
    {TemplateSetFields,
     Text(<< <<"defaultFieldValues">>, <<"(">>, <<");">> >>),
     Text(<< <<"defaultFieldValues">>, <<"regions">> >>),
     Text(<< <<"//", "regions", "of", "ignition">>, <<"defaultFieldValues">>,
             <<"regions">>, <<"(">>, <<");">> >>),
     OpenText(<< <<"defaultFieldValues">>, <<"regions">>, <<"(">> >>)}

\* regions as add_regions_interactive builds them, of a shape type that is
\* supported or not
ShapeInputs == {"circle", "square", "ring", "triangle"}
InjectRegionInputs == {Region(t, r) : t \in ShapeInputs, r \in 1..2}

----------------------------------------------------------------------------
(* task_initialization.py: initialize_task_manager *)

\* lines 70-76: the run_cases built for (case_type, case_num)
RECURSIVE BuildRunCases(_, _)
BuildRunCases(case_type, case_num) ==
    IF case_num <= 0 THEN <<>>
    ELSE Append(BuildRunCases(case_type, case_num - 1),
                [name |-> CaseName(case_type, case_num),
                 case_type |-> case_type,
                 case_config |-> CaseConfiguration(case_type).value])

\* faulty variant: the existence check of lines 60-61 is missing
initialize_task_manager_overwrite(case_type, case_num) ==
    IF ~config.readable
    THEN [status |-> "error", error |-> "ConfigurationError", file |-> task_manager]
    ELSE IF case_type \notin config.supported
    THEN [status |-> "error", error |-> "UnsupportedCaseType", file |-> task_manager]
    ELSE IF case_num <= 0
    THEN [status |-> "error", error |-> "InvalidCount", file |-> task_manager]
    ELSE IF CaseConfiguration(case_type).exc # "none"
    THEN [status |-> "error", error |-> CaseConfiguration(case_type).exc,
          file |-> task_manager]
    ELSE [status |-> "success", error |-> "none",
          file |-> Registry(BuildRunCases(case_type, case_num))]

\* faulty variant: the count check of lines 67-68 is missing
initialize_task_manager_nocount(case_type, case_num) ==
    IF ~config.readable
    THEN [status |-> "error", error |-> "ConfigurationError", file |-> task_manager]
    ELSE IF task_manager.state # "absent"
    THEN [status |-> "error", error |-> "AlreadyExists", file |-> task_manager]
    ELSE IF case_type \notin config.supported
    THEN [status |-> "error", error |-> "UnsupportedCaseType", file |-> task_manager]
    ELSE IF CaseConfiguration(case_type).exc # "none"
    THEN [status |-> "error", error |-> CaseConfiguration(case_type).exc,
          file |-> task_manager]
    ELSE [status |-> "success", error |-> "none",
          file |-> Registry(BuildRunCases(case_type, case_num))]

\* the result and the registry file after the call
initialize_task_manager(case_type, case_num) ==
    IF ~config.readable
    THEN [status |-> "error", error |-> "ConfigurationError", file |-> task_manager]
    ELSE IF task_manager.state # "absent"
    THEN [status |-> "error", error |-> "AlreadyExists", file |-> task_manager]
    ELSE IF case_type \notin config.supported
    THEN [status |-> "error", error |-> "UnsupportedCaseType", file |-> task_manager]
    ELSE IF case_num <= 0
    THEN [status |-> "error", error |-> "InvalidCount", file |-> task_manager]
    ELSE IF CaseConfiguration(case_type).exc # "none"
    THEN [status |-> "error", error |-> CaseConfiguration(case_type).exc,
          file |-> task_manager]
    ELSE [status |-> "success", error |-> "none",
          file |-> Registry(BuildRunCases(case_type, case_num))]

InitializeTaskManager(case_type, case_num) ==
    LET r == initialize_task_manager(case_type, case_num) IN
    /\ task_manager' = r.file
    /\ last' = [op |-> "initialize_task_manager", case_type |-> case_type,
                case_num |-> case_num, status |-> r.status, error |-> r.error]
    /\ UNCHANGED <<config, templates, df_runs, xde_runs, pc, local, host>>

\* initialize_task_manager called concurrently: each call is three steps, the
\* checks up to the build of run_cases (lines 41-76), the open for writing (line
\* 79), which creates or empties the file, and the dump (line 80)
ITM_Check(p, case_type, case_num) ==
    LET r == initialize_task_manager(case_type, case_num) IN
    /\ pc[p] = "idle"
    /\ pc' = [pc EXCEPT ![p] = IF r.status = "success" THEN "checked" ELSE "done"]
    /\ local' = [local EXCEPT ![p] =
                    [case_name |-> CaseName(case_type, case_num),
                     region |-> Idle.region,
                     task_manager |-> r.file,
                     status |-> IF r.status = "success" THEN "none" ELSE "error"]]
    /\ UNCHANGED <<config, templates, task_manager, df_runs, xde_runs, last, host>>

ITM_Open(p) ==
    /\ pc[p] = "checked"
    /\ task_manager' = Truncated
    /\ pc' = [pc EXCEPT ![p] = "created"]
    /\ UNCHANGED <<config, templates, df_runs, xde_runs, last, local, host>>

ITM_Dump(p) ==
    /\ pc[p] = "created"
    /\ task_manager' = local[p].task_manager
    /\ pc' = [pc EXCEPT ![p] = "done"]
    /\ local' = [local EXCEPT ![p].status = "success"]
    /\ UNCHANGED <<config, templates, df_runs, xde_runs, last, host>>

----------------------------------------------------------------------------
(* task_initialization.py: initialize_tasks *)

\* faulty variant: copytree(..., dirs_exist_ok=True), which copies into an
\* existing target
copytree_exist_ok(dirs, case_type, case_name) ==
    IF case_type \notin templates
    THEN [exc |-> "FileNotFoundError", dirs |-> dirs]
    ELSE [exc |-> "none", dirs |-> (case_name :> TemplateTree(case_type)) @@ dirs]

\* faulty variant: the target is the first case's directory whatever the entry
copytree_shared(dirs, case_type, case_name) ==
    IF case_type \notin templates
    THEN [exc |-> "FileNotFoundError", dirs |-> dirs]
    ELSE [exc |-> "none",
          dirs |-> (CaseName(case_type, 1) :> TemplateTree(case_type)) @@ dirs]

\* shutil.copytree(case_template_dir, target_dir): the directories afterwards, or
\* the exception raised (the source is listed before the target is created)
copytree(dirs, case_type, case_name) ==
    IF case_type \notin templates
    THEN [exc |-> "FileNotFoundError", dirs |-> dirs]
    ELSE IF HasDir(dirs, case_name)
    THEN [exc |-> "FileExistsError", dirs |-> dirs]
    ELSE [exc |-> "none", dirs |-> (case_name :> TemplateTree(case_type)) @@ dirs]

\* lines 150-157: the loop over run_cases from entry i on; it ends at the first
\* entry that fails
RECURSIVE CopyLoop(_, _, _)
CopyLoop(run_cases, i, dirs) ==
    IF i > Len(run_cases)
    THEN [status |-> "success", error |-> "none", failed |-> UnknownCase, dirs |-> dirs]
    ELSE IF run_cases[i].case_type \notin config.supported
    THEN [status |-> "error", error |-> "UnsupportedCaseType",
          failed |-> run_cases[i].name, dirs |-> dirs]
    ELSE LET c == copytree(dirs, run_cases[i].case_type, run_cases[i].name) IN
         IF c.exc # "none"
         THEN [status |-> "error", error |-> c.exc,
               failed |-> run_cases[i].name, dirs |-> dirs]
         ELSE CopyLoop(run_cases, i + 1, c.dirs)

InitializeTasks ==
    IF ~config.readable
    THEN /\ last' = [op |-> "initialize_tasks", status |-> "error",
                     error |-> "ConfigurationError", failed |-> UnknownCase]
         /\ UNCHANGED <<config, templates, task_manager, df_runs, xde_runs, pc, local, host>>
    ELSE IF task_manager.state = "absent"
    THEN /\ last' = [op |-> "initialize_tasks", status |-> "error",
                     error |-> "RegistryMissing", failed |-> UnknownCase]
         /\ UNCHANGED <<config, templates, task_manager, df_runs, xde_runs, pc, local, host>>
    ELSE IF task_manager.state = "truncated"
    THEN /\ last' = [op |-> "initialize_tasks", status |-> "error",
                     error |-> "JSONDecodeError", failed |-> UnknownCase]
         /\ UNCHANGED <<config, templates, task_manager, df_runs, xde_runs, pc, local, host>>
    ELSE LET r == CopyLoop(task_manager.run_cases, 1, df_runs.dirs) IN
         /\ df_runs' = [exists |-> TRUE, dirs |-> r.dirs]
         /\ xde_runs' = TRUE
         /\ last' = [op |-> "initialize_tasks", status |-> r.status,
                     error |-> r.error, failed |-> r.failed]
         /\ UNCHANGED <<config, templates, task_manager, pc, local, host>>

----------------------------------------------------------------------------
(* setFields.py: add_region_config *)

\* faulty variant: regions.insert(0, region)
PrependRegion(regions, region) == <<region>> \o regions

\* line 64: regions.append(region)
AppendRegion(regions, region) == Append(regions, region)

\* faulty variant: only the updated case is written back
UpdateOnlyCase(run_cases, case_name, region) ==
    <<[Entry(run_cases, case_name) EXCEPT !.case_config.setFieldsDict.regions =
          Append(@, region)]>>

\* lines 59-70: the loaded structure with the region appended to the case's list
UpdateRunCases(run_cases, case_name, region) ==
    [run_cases EXCEPT ![IndexOf(run_cases, case_name)].case_config.setFieldsDict.regions =
        AppendRegion(@, region)]

\* faulty variant: an unknown case is created instead of rejected
add_region_config_setdefault(file, case_name, region) ==
    IF file.state = "absent"
    THEN [status |-> "error", error |-> "FileNotFoundError", file |-> file]
    ELSE IF file.state = "truncated"
    THEN [status |-> "error", error |-> "JSONDecodeError", file |-> file]
    ELSE IF case_name \notin Names(file.run_cases)
    THEN [status |-> "success", error |-> "none",
          file |-> Registry(Append(file.run_cases,
                      [name |-> case_name, case_type |-> "2D_HIT",
                       case_config |-> [setFieldsDict |-> [regions |-> <<region>>]]]))]
    ELSE [status |-> "success", error |-> "none",
          file |-> Registry(UpdateRunCases(file.run_cases, case_name, region))]

\* lines 44-79 run without interruption: the result and the registry file afterwards
add_region_config(file, case_name, region) ==
    IF file.state = "absent"
    THEN [status |-> "error", error |-> "FileNotFoundError", file |-> file]
    ELSE IF file.state = "truncated"
    THEN [status |-> "error", error |-> "JSONDecodeError", file |-> file]
    ELSE IF case_name \notin Names(file.run_cases)
    THEN [status |-> "error", error |-> "UnknownCase", file |-> file]
    ELSE [status |-> "success", error |-> "none",
          file |-> Registry(UpdateRunCases(file.run_cases, case_name, region))]

RECURSIVE TotalRegions(_)
TotalRegions(run_cases) ==
    IF run_cases = <<>> THEN 0
    ELSE Len(Head(run_cases).case_config.setFieldsDict.regions)
         + TotalRegions(Tail(run_cases))

AddRegionConfig(case_name, region) ==
    LET r == add_region_config(task_manager, case_name, region) IN
    /\ TotalRegions(task_manager.run_cases) < MaxRegions
    /\ task_manager' = r.file
    /\ last' = [op |-> "add_region_config", case_name |-> case_name,
                region |-> region, status |-> r.status, error |-> r.error]
    /\ UNCHANGED <<config, templates, df_runs, xde_runs, pc, local, host>>

----------------------------------------------------------------------------
(* add_region_config called concurrently: each call is three steps, the load   *)
(* (lines 44-70), the open for writing (line 72), which empties the file, and  *)
(* the dump (line 73)                                                          *)

ARC_Load(p, case_name, region) ==
    LET r == add_region_config(task_manager, case_name, region) IN
    /\ pc[p] = "idle"
    /\ pc' = [pc EXCEPT ![p] = IF r.status = "success" THEN "loaded" ELSE "done"]
    /\ local' = [local EXCEPT ![p] =
                    [case_name |-> case_name, region |-> region,
                     task_manager |-> r.file,
                     status |-> IF r.status = "success" THEN "none" ELSE "error"]]
    /\ UNCHANGED <<config, templates, task_manager, df_runs, xde_runs, last, host>>

ARC_Open(p) ==
    /\ pc[p] = "loaded"
    /\ task_manager' = Truncated
    /\ pc' = [pc EXCEPT ![p] = "opened"]
    /\ UNCHANGED <<config, templates, df_runs, xde_runs, last, local, host>>

ARC_Dump(p) ==
    /\ pc[p] = "opened"
    /\ task_manager' = local[p].task_manager
    /\ pc' = [pc EXCEPT ![p] = "done"]
    /\ local' = [local EXCEPT ![p].status = "success"]
    /\ UNCHANGED <<config, templates, df_runs, xde_runs, last, host>>

----------------------------------------------------------------------------
(* setFields.py: conduct_add_region *)

\* f.writelines: text b written after text a; a line left open is continued
Cat(a, b) ==
    IF b.lines = <<>> THEN a
    ELSE IF a.open /\ a.lines # <<>>
    THEN [lines |-> SubSeq(a.lines, 1, Len(a.lines) - 1)
                    \o <<a.lines[Len(a.lines)] \o Head(b.lines)>>
                    \o Tail(b.lines),
          open |-> b.open]
    ELSE [lines |-> a.lines \o b.lines, open |-> b.open]

\* "\n"
NewLine == Text(<< <<>> >>)

\* f.readlines: line i with its newline, if it has one
LineOf(text, i) ==
    [lines |-> <<text.lines[i]>>, open |-> text.open /\ i = Len(text.lines)]

\* "regions" in line
HasAnchor(line) == \E k \in 1..Len(line) : line[k] = "regions"

\* f"{x:.8f}" for the whole numbers of the model
Fixed8(x) == ToString(x) \o ".00000000"
\* lines 96-97: " ".join(f"{x:.8f}" for x in p)
JoinPoint(p) == <<Fixed8(p[1]), Fixed8(p[2]), Fixed8(p[3])>>

\* lines 99-111: the shared fieldValues table
FieldValues ==
    << <<"fieldValues">>,
       <<"(">>,
       <<"volScalarFieldValue", "T", "2562.9164474426">>,
       <<"volScalarFieldValue", "H", "0.0001388161">>,
       <<"volScalarFieldValue", "H2", "0.0017201967">>,
       <<"volScalarFieldValue", "O", "0.0007829835">>,
       <<"volScalarFieldValue", "OH", "0.0088649505">>,
       <<"volScalarFieldValue", "H2O", "0.2335677169">>,
       <<"volScalarFieldValue", "O2", "0.0097972807">>,
       <<"volScalarFieldValue", "HO2", "0.0000040007">>,
       <<"volScalarFieldValue", "H2O2", "0.0000004494">>,
       <<"volScalarFieldValue", "N2", "0.7451236055">>,
       <<");">> >>

SupportedShapes == {"circle", "square", "ring"}
BlockHeaders == {"cylinderToCell", "boxToCell", "cylinderAnnulusToCell"}

\* a number as the f-string writes it before the semicolon: the radius as it was
\* passed (a whole number here), and a float, which carries a decimal point
IntToken(x) == ToString(x) \o ";"
FloatToken(x) == ToString(x) \o ".0;"

\* an outer radius that is the square of the radius
OuterRadiusSquare(radius) == radius * radius

\* line 135: outer = 2 * float(radius)
OuterRadius(radius) == 2 * radius

\* lines 113-144: new_block, which starts with a newline and ends without one; it
\* is bound only for the three shapes
NewBlock(region) ==
    IF region.type = "circle"
    THEN OpenText(<< <<>>, <<"cylinderToCell">>, <<"{">>,
                     <<"p1", "(">> \o JoinPoint(region.p1) \o <<");">>,
                     <<"p2", "(">> \o JoinPoint(region.p2) \o <<");">>,
                     <<"radius", IntToken(region.radius)>> >>
                  \o FieldValues \o << <<"}">> >>)
    ELSE IF region.type = "square"
    THEN OpenText(<< <<>>, <<"boxToCell">>, <<"{">>, <<"boxes">>, <<"(">>,
                     <<"(">> \o JoinPoint(region.p1) \o <<")(">>
                        \o JoinPoint(region.p2) \o <<")">>,
                     <<");">> >>
                  \o FieldValues \o << <<"}">> >>)
    ELSE OpenText(<< <<>>, <<"cylinderAnnulusToCell">>, <<"{">>,
                     <<"p1", "(">> \o JoinPoint(region.p1) \o <<");">>,
                     <<"p2", "(">> \o JoinPoint(region.p2) \o <<");">>,
                     <<"innerRadius", IntToken(region.radius)>>,
                     <<"outerRadius", FloatToken(OuterRadius(region.radius))>> >>
                  \o FieldValues \o << <<"}">> >>)

\* the flag of lines 153-166 at the start of iteration i: set by the line before iff
\* that line names the region list (a set flag is cleared in the iteration after)
Inserted(text, i) == i > 1 /\ HasAnchor(text.lines[i - 1])

\* what iteration i appends to new_lines (lines 155-163)
Appended(text, i, region) ==
    IF Inserted(text, i)
    THEN Cat(Cat(Cat(LineOf(text, i), NewLine), NewLine), NewBlock(region))
    ELSE LineOf(text, i)

\* new_lines after iterations lo..hi, as writelines joins them; the iterations
\* are joined pairwise, string concatenation being associative
RECURSIVE JoinLines(_, _, _, _)
JoinLines(text, lo, hi, region) ==
    IF lo > hi THEN Text(<<>>)
    ELSE IF lo = hi THEN Appended(text, lo, region)
    ELSE LET mid == (lo + hi) \div 2 IN
         Cat(JoinLines(text, lo, mid, region), JoinLines(text, mid + 1, hi, region))

\* lines 152-166; new_block is unbound for a shape that is not supported, and is
\* first read at line 162
InsertLoop(text, region) ==
    IF /\ region.type \notin SupportedShapes
       /\ \E i \in 1..Len(text.lines) : Inserted(text, i)
    THEN [exc |-> "UnboundLocalError", text |-> text]
    ELSE [exc |-> "none", text |-> JoinLines(text, 1, Len(text.lines), region)]

\* conduct_add_region(target_case_path, region, p1, p2, radius): the exception
\* raised, if any, and system/setFieldsDict of the case afterwards
conduct_add_region(dirs, case_name, region) ==
    IF ~HasDir(dirs, case_name)
    THEN [exc |-> "FileNotFoundError", dirs |-> dirs]
    ELSE LET r == InsertLoop(dirs[case_name].setFieldsDict, region) IN
         IF r.exc # "none"
         THEN [exc |-> r.exc, dirs |-> dirs]
         ELSE IF region.type \notin SupportedShapes
         THEN \* the file is rewritten, then line 175 reads new_block
              [exc |-> "UnboundLocalError",
               dirs |-> [dirs EXCEPT ![case_name].setFieldsDict = r.text]]
         ELSE [exc |-> "none",
               dirs |-> [dirs EXCEPT ![case_name].setFieldsDict = r.text]]

\* the region blocks of a dictionary: its lines that open a block
BlockLines(text) ==
    {i \in 1..Len(text.lines) :
        \E k \in 1..Len(text.lines[i]) : text.lines[i][k] \in BlockHeaders}

ConductAddRegion(case_name, region) ==
    LET r == conduct_add_region(df_runs.dirs, case_name, region) IN
    /\ HasDir(df_runs.dirs, case_name)
       => Cardinality(BlockLines(df_runs.dirs[case_name].setFieldsDict)) < MaxBlocks
    /\ df_runs' = [df_runs EXCEPT !.dirs = r.dirs]
    /\ last' = [op |-> "conduct_add_region", case_name |-> case_name,
                region |-> region,
                status |-> IF r.exc = "none" THEN "success" ELSE "raised",
                error |-> r.exc]
    /\ UNCHANGED <<config, templates, task_manager, xde_runs, pc, local, host>>

----------------------------------------------------------------------------
(* setFields.py: add_target_case_region and add_regions_interactive *)

\* the shape lists a caller passes: empty, of a length the function has no
\* coordinates for, of supported shapes, and with a shape that is not supported
ShapeListInputs ==
    {<<>>, <<"circle">>, <<"circle", "ring">>, <<"square", "circle">>,
     <<"circle", "triangle">>, <<"triangle", "circle">>,
     <<"circle", "square", "ring">>}

\* the list lengths for which lines 303-365 bind test_region
TestRegionLengths == 2..4

\* the region built for position idx of a list of n shapes; lists of four use the
\* larger radius
TestRegion(n, idx, type) == Region(type, IF n = 4 THEN 2 ELSE 1)

\* lines 299-369: one add_region_config call per shape, its result ignored
RECURSIVE ConfigLoop(_, _, _, _)
ConfigLoop(file, case_name, types, idx) ==
    IF idx > Len(types) THEN file
    ELSE ConfigLoop(add_region_config(file, case_name,
                                      TestRegion(Len(types), idx, types[idx])).file,
                    case_name, types, idx + 1)

\* lines 206-214: every region the registry lists for the case is injected, the
\* first exception ends the loop
RECURSIVE RegionLoop(_, _, _, _)
RegionLoop(dirs, case_name, regions, idx) ==
    IF idx > Len(regions) THEN [exc |-> "none", dirs |-> dirs]
    ELSE LET res == conduct_add_region(dirs, case_name, regions[idx]) IN
         IF res.exc # "none" THEN res
         ELSE RegionLoop(res.dirs, case_name, regions, idx + 1)

\* add_target_case_region without the checks of lines 183-194: a case the registry
\* does not list has nothing to inject and ends normally
add_target_case_region_nocheck(file, dirs, target_case_name) ==
    IF file.state # "json" \/ target_case_name \notin Names(file.run_cases)
    THEN [exc |-> "none", dirs |-> dirs]
    ELSE RegionLoop(dirs, target_case_name,
                    RegionsOf(file.run_cases, target_case_name), 1)

add_target_case_region(file, dirs, target_case_name) ==
    IF file.state = "absent" THEN [exc |-> "SystemExit", dirs |-> dirs]
    ELSE IF file.state = "truncated" THEN [exc |-> "JSONDecodeError", dirs |-> dirs]
    ELSE IF target_case_name \notin Names(file.run_cases)
    THEN [exc |-> "SystemExit", dirs |-> dirs]
    ELSE LET res == RegionLoop(dirs, target_case_name,
                               RegionsOf(file.run_cases, target_case_name), 1) IN
         IF res.exc = "none" /\ RegionsOf(file.run_cases, target_case_name) = <<>>
         THEN [exc |-> "UnboundLocalError", dirs |-> res.dirs]
         ELSE res

\* status "exit" is the interpreter leaving through exit(1): SystemExit is not an
\* Exception and passes the except clause of line 380
add_regions_interactive(file, runs, setFields_type, case_name) ==
    IF setFields_type = <<>>
    THEN [status |-> "error", error |-> "EmptyList", file |-> file, dirs |-> runs.dirs]
    ELSE IF ~runs.exists
    THEN [status |-> "error", error |-> "FileNotFoundError",
          file |-> file, dirs |-> runs.dirs]
    ELSE IF Len(setFields_type) \notin TestRegionLengths
    THEN [status |-> "error", error |-> "UnboundLocalError",
          file |-> file, dirs |-> runs.dirs]
    ELSE LET written == ConfigLoop(file, case_name, setFields_type, 1)
             res == add_target_case_region(written, runs.dirs, case_name)
         IN [status |-> IF res.exc = "none" THEN "success"
                        ELSE IF res.exc = "SystemExit" THEN "exit" ELSE "error",
             error |-> res.exc, file |-> written, dirs |-> res.dirs]

AddRegionsInteractive(setFields_type, case_name) ==
    LET r == add_regions_interactive(task_manager, df_runs, setFields_type, case_name) IN
    /\ TotalRegions(task_manager.run_cases) + Len(setFields_type) <= MaxListed
    /\ task_manager' = r.file
    /\ df_runs' = [df_runs EXCEPT !.dirs = r.dirs]
    /\ last' = [op |-> "add_regions_interactive", case_name |-> case_name,
                setFields_type |-> setFields_type,
                status |-> r.status, error |-> r.error]
    /\ UNCHANGED <<config, templates, xde_runs, pc, local, host>>

\* lines 180-216 called on their own; status "exit" is exit(1), "raised" an
\* exception that leaves the function
AddTargetCaseRegion(target_case_name) ==
    LET r == add_target_case_region(task_manager, df_runs.dirs, target_case_name) IN
    /\ HasDir(df_runs.dirs, target_case_name)
       => Cardinality(BlockLines(df_runs.dirs[target_case_name].setFieldsDict))
          + Len(RegionsOf(task_manager.run_cases, target_case_name)) <= MaxInjected
    /\ df_runs' = [df_runs EXCEPT !.dirs = r.dirs]
    /\ last' = [op |-> "add_target_case_region", case_name |-> target_case_name,
                status |-> IF r.exc = "none" THEN "success"
                           ELSE IF r.exc = "SystemExit" THEN "exit" ELSE "raised",
                error |-> r.exc]
    /\ UNCHANGED <<config, templates, task_manager, xde_runs, pc, local, host>>

----------------------------------------------------------------------------
(* df_agent_tools.py, task_runner.py and df_case_tools.py: the run tools.        *)
(* A result is [status, error, spawned, host]: error is "none" when the result   *)
(* carries no error_message, spawned lists the processes the call started, each  *)
(* [script, cwd, exit], host is the host afterwards. Status "raised" is an       *)
(* exception leaving the function. exit is the exit code the script would end    *)
(* with.                                                                         *)

ExitCodes == {0, 1}
Spawn(script, cwd, exit) == [script |-> script, cwd |-> cwd, exit |-> exit]

check_bashrc_loaded(h) ==
    LET missing == {"DeepFlame" : v \in {"DF_ROOT"} \ h.env}
                   \cup {"OpenFOAM" : v \in {"WM_PROJECT_DIR"} \ h.env} IN
    [status |-> IF missing = {} THEN "success" ELSE "not_loaded",
     error |-> "none", missing |-> missing, spawned |-> <<>>, host |-> h]

\* run_allrun_script that runs the script a second time after a non-zero exit
run_allrun_script_retry(h, case_path, exit) ==
    LET allrun_script == Script(case_path, "Allrun") IN
    IF allrun_script \notin h.scripts
    THEN [status |-> "error", error |-> "ScriptNotFound", spawned |-> <<>>, host |-> h]
    ELSE IF exit = 0
    THEN [status |-> "success", error |-> "none",
          spawned |-> <<Spawn(allrun_script, CallerCwd, exit)>>, host |-> h]
    ELSE [status |-> "error", error |-> "CalledProcessError",
          spawned |-> <<Spawn(allrun_script, CallerCwd, exit),
                        Spawn(allrun_script, CallerCwd, exit)>>, host |-> h]

run_allrun_script(h, case_path, exit) ==
    LET allrun_script == Script(case_path, "Allrun") IN
    IF allrun_script \notin h.scripts
    THEN [status |-> "error", error |-> "ScriptNotFound", spawned |-> <<>>, host |-> h]
    ELSE [status |-> IF exit = 0 THEN "success" ELSE "error",
          error |-> IF exit = 0 THEN "none" ELSE "CalledProcessError",
          spawned |-> <<Spawn(allrun_script, CallerCwd, exit)>>, host |-> h]

\* task_runner.py: start_df_runs
start_df_runs(h, runs, exit) ==
    LET allrun_script == Script(TemplateCasePath, "Allrun")
        ran == <<Spawn(allrun_script, CallerCwd, exit)>> IN
    IF "DF_AGENT_ROOT" \notin h.env
    THEN [status |-> "error", error |-> "EnvironmentError", spawned |-> <<>>, host |-> h]
    ELSE IF allrun_script \notin h.scripts
    THEN [status |-> "error", error |-> "ScriptNotFound", spawned |-> <<>>, host |-> h]
    ELSE IF exit # 0
    THEN [status |-> "error", error |-> "CalledProcessError", spawned |-> ran, host |-> h]
    ELSE IF ~runs.exists
    THEN [status |-> "raised", error |-> "FileNotFoundError", spawned |-> ran, host |-> h]
    ELSE [status |-> "success", error |-> "none", spawned |-> ran,
          host |-> [h EXCEPT !.logs = @ \cup {CasePath(n) : n \in DOMAIN runs.dirs}]]

\* read_and_save_openfoam_scalars that reports an output file it cannot open as
\* file_not_found
read_and_save_openfoam_scalars_notfound(h) ==
    LET missing_files == {f \in {"T", "Cx"} : h.scalars[f] = "absent"} IN
    IF \E f \in {"T", "Cx"} : h.scalars[f] = "malformed"
    THEN [status |-> "raised", error |-> "ValueError", missing |-> {},
          spawned |-> <<>>, host |-> h]
    ELSE IF missing_files # {} \/ h.output = "unwritable"
    THEN [status |-> "file_not_found", error |-> "none", missing |-> missing_files,
          spawned |-> <<>>, host |-> h]
    ELSE [status |-> "success", error |-> "none", missing |-> {},
          spawned |-> <<>>, host |-> [h EXCEPT !.output = "written"]]

\* lines 104-144; read_openfoam_scalar (line 111) is called outside the try block
\* and raises on a file it cannot parse
read_and_save_openfoam_scalars(h) ==
    LET missing_files == {f \in {"T", "Cx"} : h.scalars[f] = "absent"} IN
    IF \E f \in {"T", "Cx"} : h.scalars[f] = "malformed"
    THEN [status |-> "raised", error |-> "ValueError", missing |-> {},
          spawned |-> <<>>, host |-> h]
    ELSE IF missing_files # {}
    THEN [status |-> "file_not_found", error |-> "none", missing |-> missing_files,
          spawned |-> <<>>, host |-> h]
    ELSE IF h.output = "unwritable"
    THEN [status |-> "error", error |-> "OSError", missing |-> {},
          spawned |-> <<>>, host |-> h]
    ELSE [status |-> "success", error |-> "none", missing |-> {},
          spawned |-> <<>>, host |-> [h EXCEPT !.output = "written"]]

\* plot_openfoam_data on the file read_and_save_openfoam_scalars writes
plot_openfoam_data(h) ==
    IF h.output # "written"
    THEN [status |-> "file_not_found", error |-> "InputFileMissing",
          missing |-> {"input_file"}, spawned |-> <<>>, host |-> h]
    ELSE [status |-> "success", error |-> "none", missing |-> {},
          spawned |-> <<>>, host |-> h]

\* df_case_tools.py: copy_from_standard with an empty region_type list;
\* TargetCasePath is target_case_dir
TargetCasePath(case_name) == "setup/" \o case_name
RunScriptName(switch) == IF switch THEN "sub.sh" ELSE "set.sh"
copy_from_standard(h, standard_case_path, case_name, switch, exit) ==
    LET target_case_dir == TargetCasePath(case_name)
        run_script == Script(target_case_dir, RunScriptName(switch))
        copied == [h EXCEPT !.dirs = @ \cup {target_case_dir},
                            !.scripts = @ \cup {Script(target_case_dir, sc[2]) :
                                sc \in {x \in h.scripts : x[1] = standard_case_path}}]
    IN
    IF standard_case_path \notin h.dirs \/ target_case_dir \in h.dirs
    THEN [status |-> "error", error |-> "CopyFailed", spawned |-> <<>>, host |-> h]
    ELSE IF run_script \notin copied.scripts
    THEN [status |-> "error", error |-> "ScriptNotFound", spawned |-> <<>>,
          host |-> copied]
    ELSE [status |-> IF exit = 0 THEN "success" ELSE "error",
          error |-> IF exit = 0 THEN "none" ELSE "CalledProcessError",
          spawned |-> <<Spawn(run_script, target_case_dir, exit)>>, host |-> copied]

\* case_path arguments of run_allrun_script, and case_name arguments of
\* copy_from_standard
CasePathInputs ==
    {TemplateCasePath, "nowhere"} \cup {CasePath(CaseName("2D_HIT", i)) : i \in 1..MaxCaseNum}
SetupNameInputs == {"case_a"}

\* what last records of a call of a run tool
ToolCall(op, r, script, missing) ==
    [op |-> op, status |-> r.status, error |-> r.error,
     spawned |-> r.spawned, script |-> script, missing |-> missing]

NoScript == Script("none", "none")

CheckBashrcLoaded ==
    LET r == check_bashrc_loaded(host) IN
    /\ host' = r.host
    /\ last' = ToolCall("check_bashrc_loaded", r, NoScript, r.missing)
    /\ UNCHANGED <<config, templates, task_manager, df_runs, xde_runs, pc, local>>

RunAllrunScript(case_path) ==
    \E exit \in ExitCodes :
        LET r == run_allrun_script(host, case_path, exit) IN
        /\ host' = r.host
        /\ last' = ToolCall("run_allrun_script", r,
                            Script(case_path, "Allrun"), {})
        /\ UNCHANGED <<config, templates, task_manager, df_runs, xde_runs, pc, local>>

StartDfRuns ==
    \E exit \in ExitCodes :
        LET r == start_df_runs(host, df_runs, exit) IN
        /\ host' = r.host
        /\ last' = ToolCall("start_df_runs", r,
                            Script(TemplateCasePath, "Allrun"), {})
        /\ UNCHANGED <<config, templates, task_manager, df_runs, xde_runs, pc, local>>

ReadAndSaveOpenfoamScalars ==
    LET r == read_and_save_openfoam_scalars(host) IN
    /\ host' = r.host
    /\ last' = ToolCall("read_and_save_openfoam_scalars", r, NoScript, r.missing)
    /\ UNCHANGED <<config, templates, task_manager, df_runs, xde_runs, pc, local>>

PlotOpenfoamData ==
    LET r == plot_openfoam_data(host) IN
    /\ host' = r.host
    /\ last' = ToolCall("plot_openfoam_data", r, NoScript, r.missing)
    /\ UNCHANGED <<config, templates, task_manager, df_runs, xde_runs, pc, local>>

CopyFromStandard(case_name, switch) ==
    \E exit \in ExitCodes :
        LET r == copy_from_standard(host, StandardCasePath, case_name, switch, exit) IN
        /\ host' = r.host
        /\ last' = ToolCall("copy_from_standard", r,
                            Script(TargetCasePath(case_name), RunScriptName(switch)), {})
        /\ UNCHANGED <<config, templates, task_manager, df_runs, xde_runs, pc, local>>

----------------------------------------------------------------------------
(* case_generation_tools/setup_case_directory.py: setup_case_directory.         *)
(* A path below base_dir is the sequence of its components; host.dirs holds the *)
(* paths of the directories that exist, written with "/" between components.    *)

RECURSIVE PathString(_)
PathString(path) ==
    IF Len(path) = 1 THEN path[1]
    ELSE PathString(SubSeq(path, 1, Len(path) - 1)) \o "/" \o path[Len(path)]

\* Path.mkdir(parents=True, exist_ok=True): the directory and every missing parent
MkdirParents(dirs, path) ==
    dirs \cup {PathString(SubSeq(path, 1, k)) : k \in 1..Len(path)}

\* case names a caller passes; line 40 rejects the empty name and names with one
\* of the listed characters
SetupCaseNameInputs == {"my_first_case", "", "my:case"}
InvalidCaseNames == {"", "my:case"}

\* layouts a caller passes: the default, the one of the smoke test, one with a
\* nested entry after its parent and one with it before its parent, none
DefaultLayout == << <<"0">>, <<"constant">>, <<"system">> >>
LayoutInputs ==
    {DefaultLayout,
     DefaultLayout \o << <<"postProcessing">> >>,
     << <<"constant">>, <<"constant", "polyMesh">> >>,
     << <<"constant", "polyMesh">>, <<"constant">> >>,
     <<>>}

\* lines 58-62: the loop over layout from entry i on; created holds the paths
\* appended so far
RECURSIVE LayoutLoop(_, _, _, _, _)
LayoutLoop(dirs, case_path, layout, i, created) ==
    IF i > Len(layout) THEN [dirs |-> dirs, created |-> created]
    ELSE LET sub_path == case_path \o layout[i] IN
         IF PathString(sub_path) \in dirs
         THEN LayoutLoop(dirs, case_path, layout, i + 1, created)
         ELSE LayoutLoop(MkdirParents(dirs, sub_path), case_path, layout, i + 1,
                         Append(created, PathString(sub_path)))

\* lines 31-75
setup_case_directory(h, case_name, layout, overwrite) ==
    LET case_path == <<case_name>>
        r == LayoutLoop(MkdirParents(h.dirs, case_path), case_path, layout, 1, <<>>)
    IN
    IF case_name \in InvalidCaseNames
    THEN [status |-> "error", error |-> "InvalidCaseName", created |-> <<>>, host |-> h]
    ELSE IF PathString(case_path) \in h.dirs /\ ~overwrite
    THEN [status |-> "error", error |-> "AlreadyExists", created |-> <<>>, host |-> h]
    ELSE [status |-> "success", error |-> "none", created |-> r.created,
          host |-> [h EXCEPT !.dirs = r.dirs]]

SetupCaseDirectory(case_name, layout, overwrite) ==
    LET r == setup_case_directory(host, case_name, layout, overwrite) IN
    /\ host' = r.host
    /\ last' = [op |-> "setup_case_directory", case_name |-> case_name,
                layout |-> layout, overwrite |-> overwrite,
                status |-> r.status, error |-> r.error, created |-> r.created]
    /\ UNCHANGED <<config, templates, task_manager, df_runs, xde_runs, pc, local>>

----------------------------------------------------------------------------
(* Tool calls made one at a time *)
Next ==
    \/ \E t \in CaseTypeInputs, n \in CaseNumInputs : InitializeTaskManager(t, n)
    \/ InitializeTasks
    \/ \E c \in CaseNameInputs, r \in RegionInputs : AddRegionConfig(c, r)

Spec == Init /\ [][Next]_vars

(* Registry initialization followed by concurrent add_region_config calls *)
NextConc ==
    \/ \E t \in CaseTypeInputs, n \in CaseNumInputs :
         /\ \A p \in Procs : pc[p] = "idle"
         /\ InitializeTaskManager(t, n)
    \/ \E p \in Procs, c \in CaseNameInputs, r \in RegionInputs : ARC_Load(p, c, r)
    \/ \E p \in Procs : ARC_Open(p)
    \/ \E p \in Procs : ARC_Dump(p)

SpecConc == Init /\ [][NextConc]_vars

(* Concurrent initialize_task_manager calls, one per process *)
NextConcInit ==
    \/ \E p \in Procs, t \in CaseTypeInputs, n \in CaseNumInputs : ITM_Check(p, t, n)
    \/ \E p \in Procs : ITM_Open(p)
    \/ \E p \in Procs : ITM_Dump(p)

SpecConcInit == Init /\ [][NextConcInit]_vars

(* Registry initialization, materialization and region addition, one call at a *)
(* time                                                                        *)
NextRegions ==
    \/ Next
    \/ \E l \in ShapeListInputs, c \in CaseNameInputs :
         /\ TotalRegions(task_manager.run_cases) + Len(l) <= MaxRegions
         /\ AddRegionsInteractive(l, c)

SpecRegions == Init /\ [][NextRegions]_vars

(* The registry lists one case and its directory is materialized, with the     *)
(* set-fields dictionary d of its template                                     *)
Materialized(d) ==
    /\ config = [readable |-> TRUE, supported |-> {"2D_HIT"}]
    /\ templates = {"1D_free_flame", "2D_HIT"}
    /\ task_manager = Registry(BuildRunCases("2D_HIT", 1))
    /\ df_runs = [exists |-> TRUE,
                  dirs |-> (CaseName("2D_HIT", 1) :>
                               [template |-> "2D_HIT", setFieldsDict |-> d])]
    /\ xde_runs = TRUE
    /\ last = NoCall
    /\ pc = [p \in Procs |-> "idle"]
    /\ local = [p \in Procs |-> Idle]
    /\ host = DefaultHost

(* Repeated injection: add_regions_interactive and add_target_case_region are  *)
(* called any number of times on the materialized case, whichever dictionary   *)
(* the template ships                                                          *)
InitRerun == \E d \in DictInputs : Materialized(d)

NextRerun ==
    \/ \E l \in ShapeListInputs, c \in CaseNameInputs : AddRegionsInteractive(l, c)
    \/ \E c \in CaseNameInputs : AddTargetCaseRegion(c)

SpecRerun == InitRerun /\ [][NextRerun]_vars

(* add_regions_interactive alone, called any number of times on the case        *)
(* materialized from the usual template                                         *)
InitRepeat == Materialized(TemplateSetFields)

NextRepeat ==
    \E l \in ShapeListInputs, c \in CaseNameInputs : AddRegionsInteractive(l, c)

SpecRepeat == InitRepeat /\ [][NextRepeat]_vars

(* The run tools, called one at a time on a host in any of the states above, with *)
(* no case, or one or more cases, registered and materialized                    *)
InitTools ==
    /\ config = [readable |-> TRUE, supported |-> {"2D_HIT"}]
    /\ templates = {"1D_free_flame", "2D_HIT"}
    /\ \E k \in 0..MaxCaseNum :
         /\ task_manager = IF k = 0 THEN NoRegistry
                           ELSE Registry(BuildRunCases("2D_HIT", k))
         /\ df_runs \in
              {[exists |-> k > 0 \/ e,
                dirs |-> [n \in {CaseName("2D_HIT", i) : i \in 1..k}
                            |-> TemplateTree("2D_HIT")]] : e \in BOOLEAN}
    /\ xde_runs = df_runs.exists
    /\ last = NoCall
    /\ pc = [p \in Procs |-> "idle"]
    /\ local = [p \in Procs |-> Idle]
    /\ host \in HostInputs

NextTools ==
    \/ CheckBashrcLoaded
    \/ \E p \in CasePathInputs : RunAllrunScript(p)
    \/ StartDfRuns
    \/ ReadAndSaveOpenfoamScalars
    \/ PlotOpenfoamData
    \/ \E n \in SetupNameInputs, sw \in BOOLEAN : CopyFromStandard(n, sw)

SpecTools == InitTools /\ [][NextTools]_vars

(* Case directory setup, called any number of times in a base directory that is *)
(* empty at first                                                               *)
InitSetup ==
    /\ config = [readable |-> TRUE, supported |-> {"2D_HIT"}]
    /\ templates = {"1D_free_flame", "2D_HIT"}
    /\ task_manager = NoRegistry
    /\ df_runs = [exists |-> FALSE, dirs |-> <<>>]
    /\ xde_runs = FALSE
    /\ last = NoCall
    /\ pc = [p \in Procs |-> "idle"]
    /\ local = [p \in Procs |-> Idle]
    /\ host = [DefaultHost EXCEPT !.dirs = {}]

NextSetup ==
    \E n \in SetupCaseNameInputs, l \in LayoutInputs, o \in BOOLEAN :
        SetupCaseDirectory(n, l, o)

SpecSetup == InitSetup /\ [][NextSetup]_vars

(* Region injection into the dictionary of one registered case, materialized from *)
(* a template with any of the dictionaries above, or not materialized            *)
InitInject ==
    /\ config = [readable |-> TRUE, supported |-> {"2D_HIT"}]
    /\ templates = {"1D_free_flame", "2D_HIT"}
    /\ task_manager = Registry(BuildRunCases("2D_HIT", 1))
    /\ \/ df_runs = [exists |-> TRUE, dirs |-> <<>>]
       \/ \E d \in DictInputs :
            df_runs = [exists |-> TRUE,
                       dirs |-> (CaseName("2D_HIT", 1) :>
                                    [template |-> "2D_HIT", setFieldsDict |-> d])]
    /\ xde_runs = TRUE
    /\ last = NoCall
    /\ pc = [p \in Procs |-> "idle"]
    /\ local = [p \in Procs |-> Idle]
    /\ host = DefaultHost

NextInject ==
    \E r \in InjectRegionInputs : ConductAddRegion(CaseName("2D_HIT", 1), r)

SpecInject == InitInject /\ [][NextInject]_vars
----------------------------------------------------------------------------
(* Properties of the task registry *)

RunCases == task_manager.run_cases

\* the step is a call of initialize_task_manager that found no registry file
InitCallOnNoRegistry ==
    /\ task_manager.state = "absent"
    /\ last'.op = "initialize_task_manager"

\* C1: for every valid (case_type, case_num), a case_type of the supported set and
\* a positive count, initialize_task_manager called with no registry present succeeds
\* and the registry then holds exactly case_num entries named case_type_1 ..
\* case_type_case_num, each of that case type with an empty region list
C1_RegistryRoundTrip ==
    [][(/\ InitCallOnNoRegistry
        /\ last'.case_type \in config.supported
        /\ last'.case_num > 0)
       => (/\ last'.status = "success"
           /\ task_manager'.state = "json"
           /\ Len(task_manager'.run_cases) = last'.case_num
           /\ \A i \in 1..Len(task_manager'.run_cases) :
                /\ task_manager'.run_cases[i].name = CaseName(last'.case_type, i)
                /\ task_manager'.run_cases[i].case_type = last'.case_type
                /\ task_manager'.run_cases[i].case_config.setFieldsDict.regions = <<>>)]_vars

\* C2: once the registry exists, every call of initialize_task_manager, whatever its
\* arguments, returns the already-exists error and leaves the registry file as it was
C2_DoubleInitializeRejected ==
    [][(/\ task_manager.state # "absent"
        /\ last'.op = "initialize_task_manager")
       => (/\ last'.status = "error"
           /\ last'.error = "AlreadyExists"
           /\ task_manager' = task_manager)]_vars

C2_Witness ==
    /\ last.op = "initialize_task_manager"
    /\ last.error = "AlreadyExists"
    /\ last.case_type \in config.supported
    /\ last.case_num > 0
    /\ task_manager.state = "json"

AddRegionSucceeded ==
    /\ last'.op = "add_region_config"
    /\ last'.status = "success"

\* C4: under sequential calls, a successful add_region_config(X, r) extends X's
\* regions list by r at the end, and no other step changes any case's regions list:
\* the list is the sequence of regions added, in call order, duplicates kept
C4_RegionAppendOrderPreserving ==
    [][task_manager.state = "json"
       => \A name \in Names(RunCases) :
            /\ name \in Names(task_manager'.run_cases)
            /\ RegionsOf(task_manager'.run_cases, name) =
                 IF AddRegionSucceeded /\ last'.case_name = name
                 THEN Append(RegionsOf(RunCases, name), last'.region)
                 ELSE RegionsOf(RunCases, name)]_vars

C4_Witness ==
    /\ last.op = "add_region_config"
    /\ last.status = "success"
    /\ \E a, b \in RegionInputs :
         /\ a # b
         /\ \/ RegionsOf(RunCases, last.case_name) = <<a, b>>
            \/ RegionsOf(RunCases, last.case_name) = <<a, a>>

\* C5: two concurrent add_region_config calls on different case names that both
\* return success both survive: the registry file then holds each call's region in
\* its own case's regions list
C5_ConcurrentAddRegionLossless ==
    \A p \in Procs, q \in Procs :
        (/\ p # q
         /\ pc[p] = "done" /\ local[p].status = "success"
         /\ pc[q] = "done" /\ local[q].status = "success"
         /\ local[p].case_name # local[q].case_name)
        => /\ task_manager.state = "json"
           /\ \E i \in 1..Len(RegionsOf(RunCases, local[p].case_name)) :
                RegionsOf(RunCases, local[p].case_name)[i] = local[p].region
           /\ \E i \in 1..Len(RegionsOf(RunCases, local[q].case_name)) :
                RegionsOf(RunCases, local[q].case_name)[i] = local[q].region

\* C6: add_region_config called with a name that is no key of run_cases returns an
\* error and leaves the registry file as it was
C6_UnknownCaseRejected ==
    [][(/\ task_manager.state = "json"
        /\ last'.op = "add_region_config"
        /\ last'.case_name \notin Names(RunCases))
       => (/\ last'.status = "error"
           /\ task_manager' = task_manager)]_vars

C6_Witness ==
    /\ last.op = "add_region_config"
    /\ last.error = "UnknownCase"
    /\ task_manager.state = "json"
    /\ Len(RunCases) > 0

\* C7: a successful add_region_config(X, r) keeps the case names and their order,
\* every other case's entry, and X's case_type, fuel, blockMeshDict and controlDict;
\* and no step of any operation changes the case_type of a registered case
C7_AddRegionFrame ==
    [][task_manager.state = "json"
       => /\ \A name \in Names(RunCases) :
               /\ name \in Names(task_manager'.run_cases)
               /\ Entry(task_manager'.run_cases, name).case_type =
                    Entry(RunCases, name).case_type
          /\ AddRegionSucceeded
             => /\ Len(task_manager'.run_cases) = Len(RunCases)
                /\ \A i \in 1..Len(RunCases) :
                     LET old == RunCases[i]
                         new == task_manager'.run_cases[i]
                     IN /\ new.name = old.name
                        /\ new.case_type = old.case_type
                        /\ new.case_config.fuel = old.case_config.fuel
                        /\ new.case_config.blockMeshDict = old.case_config.blockMeshDict
                        /\ new.case_config.controlDict = old.case_config.controlDict
                        /\ old.name # last'.case_name => new = old]_vars

C7_Witness ==
    /\ last.op = "add_region_config"
    /\ last.status = "success"
    /\ Len(RunCases) = 2
    /\ \E name \in Names(RunCases) :
         /\ name # last.case_name
         /\ RegionsOf(RunCases, name) # <<>>

----------------------------------------------------------------------------
(* Properties of the case materializer *)

\* the step is a call of initialize_tasks that read the registry
MaterializeCall ==
    /\ config.readable
    /\ task_manager.state = "json"
    /\ last'.op = "initialize_tasks"

\* C8: when initialize_tasks returns success, every registry entry has a case
\* directory under output/df_runs named after it, holding a copy of the template of
\* the entry's case_type, and distinct entries have distinct directories
C8_OneDirectoryPerEntry ==
    (last.op = "initialize_tasks" /\ last.status = "success")
    => /\ task_manager.state = "json"
       /\ df_runs.exists
       /\ \A i \in 1..Len(RunCases) :
            /\ HasDir(df_runs.dirs, RunCases[i].name)
            /\ df_runs.dirs[RunCases[i].name] = TemplateTree(RunCases[i].case_type)
            /\ \A j \in 1..Len(RunCases) :
                 i # j => RunCases[i].name # RunCases[j].name

C8_Witness ==
    /\ last.op = "initialize_tasks"
    /\ last.status = "success"
    /\ Len(RunCases) = 2

\* the registered cases whose destination directory already exists
ExistingTargets == {name \in Names(RunCases) : HasDir(df_runs.dirs, name)}

\* C9: if the destination directory of a registered case exists when initialize_tasks
\* runs, the call returns an error, which names a case whose directory existed
\* whenever every registered type has a template, and every directory that existed
\* keeps its contents
C9_ExistingTargetUntouched ==
    [][(MaterializeCall /\ ExistingTargets # {})
       => (/\ last'.status = "error"
           /\ last'.error = "FileExistsError" => last'.failed \in ExistingTargets
           /\ (\A i \in 1..Len(RunCases) : RunCases[i].case_type \in templates)
                => last'.error = "FileExistsError"
           /\ \A name \in DOMAIN df_runs.dirs :
                /\ HasDir(df_runs'.dirs, name)
                /\ df_runs'.dirs[name] = df_runs.dirs[name])]_vars

C9_Witness ==
    /\ last.op = "initialize_tasks"
    /\ last.error = "FileExistsError"
    /\ HasDir(df_runs.dirs, last.failed)
    /\ df_runs.dirs[last.failed] = LeftoverTree

\* C10: materialization isolates failures per case: whatever happens to the other
\* entries, every registered case whose type is supported, whose template exists and
\* whose destination is absent is materialized by the initialize_tasks call
C10_FailureIsolatedPerCase ==
    [][MaterializeCall
       => \A i \in 1..Len(RunCases) :
            (/\ RunCases[i].case_type \in config.supported
             /\ RunCases[i].case_type \in templates
             /\ ~HasDir(df_runs.dirs, RunCases[i].name))
            => /\ HasDir(df_runs'.dirs, RunCases[i].name)
               /\ df_runs'.dirs[RunCases[i].name] =
                    TemplateTree(RunCases[i].case_type)]_vars

----------------------------------------------------------------------------
(* Properties of the region injector *)

\* the dictionary of the case the latest conduct_add_region call names, before and
\* after the step
DictBefore == df_runs.dirs[last'.case_name].setFieldsDict
DictAfter == df_runs'.dirs[last'.case_name].setFieldsDict

\* the step is a conduct_add_region call on a case that has a dictionary
InjectCall ==
    /\ last'.op = "conduct_add_region"
    /\ HasDir(df_runs.dirs, last'.case_name)

\* the lines that name the region list and have a line after them
ValidAnchors(text) ==
    {i \in 1..(Len(text.lines) - 1) : HasAnchor(text.lines[i])}
AnchorLines(text) == {i \in 1..Len(text.lines) : HasAnchor(text.lines[i])}

\* new is old with lines of the set added between its lines, and nothing else
RECURSIVE OnlyAdded(_, _, _)
OnlyAdded(old, new, added) ==
    IF new = <<>> THEN old = <<>>
    ELSE \/ /\ old # <<>>
            /\ Head(old) = Head(new)
            /\ OnlyAdded(Tail(old), Tail(new), added)
         \/ /\ Head(new) \in added
            /\ OnlyAdded(old, Tail(new), added)

BlockAndPadding(region) ==
    {NewBlock(region).lines[k] : k \in 1..Len(NewBlock(region).lines)} \cup {<<>>}

\* C11: injecting one region into a dictionary with a valid anchor keeps every
\* original line present as a line, in the original order: the new lines are the
\* old ones with lines of the rendered block and blank lines added between them, no
\* original line altered, merged with inserted text, or removed
C11_InjectionPreservesLines ==
    [][(/\ InjectCall
        /\ last'.status = "success"
        /\ ValidAnchors(DictBefore) # {})
       => OnlyAdded(DictBefore.lines, DictAfter.lines,
                    BlockAndPadding(last'.region))]_vars

\* the first line after line i that is not blank, 0 if there is none
RECURSIVE NextNonBlank(_, _)
NextNonBlank(text, i) ==
    IF i >= Len(text.lines) THEN 0
    ELSE IF text.lines[i + 1] # <<>> THEN i + 1
    ELSE NextNonBlank(text, i + 1)

\* C12: one conduct_add_region call on a dictionary that contains the anchor adds
\* exactly one block, and that block starts right after the anchor line, blank
\* lines apart
C12_OneBlockAfterAnchor ==
    [][(/\ InjectCall
        /\ last'.region.type \in SupportedShapes
        /\ AnchorLines(DictBefore) # {})
       => (/\ last'.status = "success"
           /\ Cardinality(BlockLines(DictAfter)) =
                Cardinality(BlockLines(DictBefore)) + 1
           /\ \E a \in AnchorLines(DictBefore) :
                /\ DictAfter.lines[a] = DictBefore.lines[a]
                /\ NextNonBlank(DictAfter, a) \in BlockLines(DictAfter)
                /\ NextNonBlank(DictBefore, a) \notin BlockLines(DictBefore)
                   \/ NextNonBlank(DictAfter, a) # NextNonBlank(DictBefore, a))]_vars

\* C13: injection into a dictionary whose anchor is absent, or is its last line,
\* returns an error result and leaves the dictionary as it was; injection for a
\* case without dictionary returns an error result; success is never returned
\* without a block having been added
C13_AnchorNotFoundIsAnError ==
    [][last'.op = "conduct_add_region"
       => /\ ~HasDir(df_runs.dirs, last'.case_name)
             => last'.status = "error" /\ df_runs' = df_runs
          /\ (InjectCall /\ ValidAnchors(DictBefore) = {})
             => last'.status = "error" /\ df_runs' = df_runs
          /\ (InjectCall /\ last'.status = "success")
             => Cardinality(BlockLines(DictAfter)) >
                  Cardinality(BlockLines(DictBefore))]_vars

----------------------------------------------------------------------------
(* Properties of add_regions_interactive *)

\* the step is an add_regions_interactive call
RegionsCall == last'.op = "add_regions_interactive"

UnsupportedIn(setFields_type) ==
    \E i \in 1..Len(setFields_type) : setFields_type[i] \notin SupportedShapes

\* C14: a call that names a shape type outside circle, square and ring is rejected
\* and writes nothing: the registry gains no region and no dictionary gains a block
C14_UnsupportedShapeWritesNothing ==
    [][(RegionsCall /\ UnsupportedIn(last'.setFields_type))
       => (/\ last'.status # "success"
           /\ task_manager' = task_manager
           /\ df_runs' = df_runs)]_vars

\* C15: a call of add_regions_interactive that returns status error has modified
\* neither the registry nor any dictionary
C15_ErrorMeansNoWrite ==
    [][(RegionsCall /\ last'.status = "error")
       => (task_manager' = task_manager /\ df_runs' = df_runs)]_vars

\* C16: every call of a tool operation ends with a result: no exception and no
\* process exit leaves initialize_task_manager, initialize_tasks or
\* add_regions_interactive
C16_NoEscape ==
    last.op \in {"initialize_task_manager", "initialize_tasks", "add_regions_interactive"}
    => last.status \in {"success", "error"}

\* C18: initialize_tasks succeeds only on an initialized registry, and
\* add_regions_interactive succeeds for a case only if the registry lists it and
\* its case directory, with the dictionary in it, exists
C18_LifecycleOrder ==
    [][/\ (last'.op = "initialize_tasks" /\ last'.status = "success")
          => task_manager.state = "json"
       /\ (RegionsCall /\ last'.status = "success")
          => (/\ task_manager.state = "json"
              /\ last'.case_name \in Names(task_manager.run_cases)
              /\ HasDir(df_runs.dirs, last'.case_name))]_vars

C18_Witness ==
    /\ last.op = "add_regions_interactive"
    /\ last.status = "success"
    /\ HasDir(df_runs.dirs, last.case_name)
    /\ BlockLines(df_runs.dirs[last.case_name].setFieldsDict) # {}

----------------------------------------------------------------------------
(* Properties of the run tools *)

\* the latest call returned a result
Returned == last.status \notin {"none", "raised", "exit"}

C19_OneRunPerCase ==
    [][(/\ last'.op = "start_df_runs"
        /\ last'.status = "success"
        /\ DOMAIN df_runs.dirs # {})
       => /\ Len(last'.spawned) = Cardinality(DOMAIN df_runs.dirs)
          /\ \A n \in DOMAIN df_runs.dirs :
                /\ Cardinality({i \in 1..Len(last'.spawned) :
                        /\ last'.spawned[i].cwd = CasePath(n)
                        /\ last'.spawned[i].script[1] = CasePath(n)}) = 1
                /\ CasePath(n) \in host'.logs]_vars

\* the step runs a case: run_allrun_script, or copy_from_standard past its copy
RunScriptCall ==
    /\ last'.op \in {"run_allrun_script", "copy_from_standard"}
    /\ last'.error # "CopyFailed"

----------------------------------------------------------------------------
(* Properties of the rendered blocks *)

\* the largest number looked for in a rendered token
MaxRendered == 8

\* the number a rendered token stands for, -1 if it is no number
ParseNumber(token) ==
    IF \E n \in 0..MaxRendered : token \in {IntToken(n), FloatToken(n)}
    THEN CHOOSE n \in 0..MaxRendered : token \in {IntToken(n), FloatToken(n)}
    ELSE -1

\* the lines of the text that give the named quantity, and those that give it
\* the value
LinesNaming(text, key) ==
    {i \in 1..Len(text.lines) : text.lines[i] # <<>> /\ text.lines[i][1] = key}
LinesGiving(text, key, value) ==
    {i \in LinesNaming(text, key) :
        Len(text.lines[i]) = 2 /\ ParseNumber(text.lines[i][2]) = value}

\* the number of blocks the conduct_add_region call of the step added
BlocksAdded ==
    Cardinality(BlockLines(DictAfter)) - Cardinality(BlockLines(DictBefore))

\* C21: every block rendered for a ring of radius r gives innerRadius r and
\* outerRadius 2*r; the blocks rendered for a circle or a square give no outer
\* radius
C21_RingOuterRadiusIsDouble ==
    [][(InjectCall /\ last'.status = "success")
       => LET r == last'.region.radius
              added(key) == Cardinality(LinesNaming(DictAfter, key))
                            - Cardinality(LinesNaming(DictBefore, key))
              given(key, v) == Cardinality(LinesGiving(DictAfter, key, v))
                               - Cardinality(LinesGiving(DictBefore, key, v))
          IN IF last'.region.type = "ring"
             THEN /\ added("innerRadius") = BlocksAdded
                  /\ given("innerRadius", r) = BlocksAdded
                  /\ added("outerRadius") = BlocksAdded
                  /\ given("outerRadius", 2 * r) = BlocksAdded
             ELSE added("outerRadius") = 0 /\ added("innerRadius") = 0]_vars

C21_Witness ==
    /\ last.op = "conduct_add_region"
    /\ last.status = "success"
    /\ last.region.type = "ring"
    /\ HasDir(df_runs.dirs, last.case_name)
    /\ LinesGiving(df_runs.dirs[last.case_name].setFieldsDict,
                   "outerRadius", 2 * last.region.radius) # {}

----------------------------------------------------------------------------
(* Properties of read_and_save_openfoam_scalars *)

AbsentScalars == {f \in {"T", "Cx"} : host.scalars[f] = "absent"}

\* C22: a read_and_save_openfoam_scalars call on a directory that lacks one or
\* more of the scalar files T and Cx returns a result that lists every absent
\* file, and leaves the output file as it was
C22_AllMissingFieldsReported ==
    [][(last'.op = "read_and_save_openfoam_scalars" /\ AbsentScalars # {})
       => /\ last'.status = "file_not_found"
          /\ last'.missing = AbsentScalars
          /\ host'.output = host.output]_vars

----------------------------------------------------------------------------
(* Further properties of add_regions_interactive *)

\* the types of the regions, in order
TypesOf(regions) == [i \in 1..Len(regions) |-> regions[i].type]

\* C23: for a registered, materialized case and a non-empty list of supported
\* shapes, of any length, add_regions_interactive returns success and the
\* registry lists one more region per list element for the case, of the listed
\* types in list order; for an empty list it returns an error and changes nothing
C23_AnyLengthAccepted ==
    [][RegionsCall
       => /\ (/\ last'.setFields_type # <<>>
               /\ ~UnsupportedIn(last'.setFields_type)
               /\ task_manager.state = "json"
               /\ last'.case_name \in Names(RunCases)
               /\ HasDir(df_runs.dirs, last'.case_name))
             => /\ last'.status = "success"
                /\ TypesOf(RegionsOf(task_manager'.run_cases, last'.case_name))
                     = TypesOf(RegionsOf(RunCases, last'.case_name))
                       \o last'.setFields_type
          /\ last'.setFields_type = <<>>
             => /\ last'.status = "error"
                /\ task_manager' = task_manager
                /\ df_runs' = df_runs]_vars

----------------------------------------------------------------------------
(* Properties of setup_case_directory *)

\* the paths of the layout entries of the latest call
LayoutPaths ==
    {PathString(<<last'.case_name>> \o last'.layout[i]) : i \in 1..Len(last'.layout)}

\* C24: a setup_case_directory call for a case directory that exists returns an
\* error and creates nothing when overwrite is false; when overwrite is true it
\* returns success, every directory that existed still exists, the directories
\* it creates are layout subdirectories, and created names exactly the
\* directories the call created
C24_SetupRepeatable ==
    [][(/\ last'.op = "setup_case_directory"
        /\ last'.case_name \in host.dirs)
       => IF ~last'.overwrite
          THEN last'.status = "error" /\ host' = host
          ELSE /\ last'.status = "success"
               /\ host.dirs \subseteq host'.dirs
               /\ (host'.dirs \ host.dirs) \subseteq LayoutPaths
               /\ {last'.created[i] : i \in 1..Len(last'.created)}
                    = host'.dirs \ host.dirs]_vars

----------------------------------------------------------------------------
(* Properties of repeated injection *)

RerunCall == last'.op = "add_target_case_region"

\* the block headers of a dictionary, in the order of its lines
HeadersOf(text) ==
    LET idxs == BlockLines(text)
        nth(j) == CHOOSE i \in idxs : Cardinality({m \in idxs : m < i}) = j - 1
    IN [j \in 1..Cardinality(idxs) |->
          CHOOSE t \in BlockHeaders :
            \E k \in 1..Len(text.lines[nth(j)]) : text.lines[nth(j)][k] = t]

\* the header of the block rendered for a region of a supported shape
HeaderOf(type) ==
    IF type = "circle" THEN "cylinderToCell"
    ELSE IF type = "square" THEN "boxToCell" ELSE "cylinderAnnulusToCell"

\* s can be obtained from t by leaving elements out
RECURSIVE IsSubSeq(_, _)
IsSubSeq(s, t) ==
    IF s = <<>> THEN TRUE
    ELSE IF t = <<>> THEN FALSE
    ELSE IF Head(s) = Head(t) THEN IsSubSeq(Tail(s), Tail(t))
    ELSE IsSubSeq(s, Tail(t))

\* C25: a run of add_target_case_region that ends normally, for a case with k
\* regions in the registry, leaves every block the dictionary had and adds
\* exactly k blocks, whatever blocks the dictionary had
C25_RunAddsOneBlockPerRegion ==
    [][(RerunCall /\ last'.status = "success")
       => LET c == last'.case_name
              old == HeadersOf(df_runs.dirs[c].setFieldsDict)
              new == HeadersOf(df_runs'.dirs[c].setFieldsDict)
          IN /\ Len(new) = Len(old) + Len(RegionsOf(RunCases, c))
             /\ IsSubSeq(old, new)]_vars

\* C26: after a successful add_regions_interactive call on a case materialized
\* from the template the dictionary of the case holds as many blocks as the
\* registry records regions for the case
C26_BlocksMatchRegistry ==
    (last.op = "add_regions_interactive" /\ last.status = "success")
    => Cardinality(BlockLines(df_runs.dirs[last.case_name].setFieldsDict))
       = Len(RegionsOf(task_manager.run_cases, last.case_name))

\* the headers of the blocks of the regions, from the last region to the first
RECURSIVE ReverseHeaders(_)
ReverseHeaders(regions) ==
    IF regions = <<>> THEN <<>>
    ELSE ReverseHeaders(Tail(regions)) \o <<HeaderOf(Head(regions).type)>>

\* C30: a run of add_target_case_region that ends normally on a dictionary with
\* a single anchor line leaves the blocks of the regions r1..rk in the order
\* rk..r1, followed by the blocks the dictionary had
C30_NewBlocksInReverseOrder ==
    [][(/\ RerunCall
        /\ last'.status = "success"
        /\ Cardinality(AnchorLines(df_runs.dirs[last'.case_name].setFieldsDict)) = 1)
       => LET c == last'.case_name
          IN HeadersOf(df_runs'.dirs[c].setFieldsDict)
             = ReverseHeaders(RegionsOf(RunCases, c))
               \o HeadersOf(df_runs.dirs[c].setFieldsDict)]_vars

----------------------------------------------------------------------------
(* Properties of concurrent registry calls *)

\* the initialize_task_manager calls that have returned success
Succeeded == {p \in Procs : pc[p] = "done" /\ local[p].status = "success"}

\* C27: of two concurrent initialize_task_manager calls at most one returns
\* success, and once no call is under way the registry file holds what the
\* successful call wrote
C27_OneInitializationSucceeds ==
    /\ Cardinality(Succeeded) <= 1
    /\ (Succeeded # {} /\ \A p \in Procs : pc[p] \in {"idle", "done"})
       => \A p \in Succeeded : task_manager = local[p].task_manager

\* C28: whenever a call can read task_manager.json, the file holds a complete
\* registry, the one before or the one after a mutation, never an empty or
\* partial one
C28_RegistryReplacedAtomically == task_manager.state # "truncated"

----------------------------------------------------------------------------
(* Properties of repeated materialization *)

\* the positions of the registry entries whose case directory exists
MaterializedEntries(dirs) ==
    {i \in 1..Len(RunCases) : HasDir(dirs, RunCases[i].name)}

\* C29: the registry entries whose case directory exists are the first entries
\* of the registry, and an initialize_tasks call made when the directory of the
\* first entry exists returns an error and leaves output/df_runs as it was
C29_MaterializedOnceInOrder ==
    [][/\ \E m \in 0..Len(task_manager'.run_cases) :
            {i \in 1..Len(task_manager'.run_cases) :
                HasDir(df_runs'.dirs, task_manager'.run_cases[i].name)} = 1..m
       /\ (/\ last'.op = "initialize_tasks"
           /\ 1 \in MaterializedEntries(df_runs.dirs))
          => /\ last'.status = "error"
             /\ df_runs'.dirs = df_runs.dirs]_vars

\* an initialize_tasks call has failed on the first entry of a registry of two
\* or more entries, all of them materialized
C29_Witness ==
    /\ last.op = "initialize_tasks"
    /\ last.status = "error"
    /\ Len(RunCases) >= 2
    /\ last.failed = RunCases[1].name
    /\ MaterializedEntries(df_runs.dirs) = 1..Len(RunCases)
    /\ \A i \in 1..Len(RunCases) :
         df_runs.dirs[RunCases[i].name] = TemplateTree(RunCases[i].case_type)
====
